---- MODULE Spec2Model ----
(***************************************************************************)
(* A model of ProducerClient                                               *)
(* (sdk/eventhubs/azure_messaging_eventhubs/src/producer/mod.rs): the      *)
(* connection cell, the token cache, the sender map, the management cell,  *)
(* their locks, and the async calls that use them.  Every await of the     *)
(* source is a point where a call is suspended and other calls may run; a  *)
(* call is one task, and its position is pc.                               *)
(***************************************************************************)
EXTENDS Naturals, FiniteSets, Sequences, TLC

\* ------------------------------------------------------------- bounds
\* Calls started on the client over a run, all tasks together.
MaxCalls == 3

\* The concurrent callers sharing the client, and no caller.
Tasks == {"a", "b"}
NoTask == "none"

\* ------------------------------------------------------------- paths
\* self.url, "amqps://<namespace>/<eventhub>" (new, line 121).
Url == "url"
\* A batch bound to a partition: the url followed by a sub-path.
PartitionPath == "url/Partitions/0"
\* self.url.clone() + "/$management" (ensure_management_client, line 353).
ManagementPath == "url/$management"
\* What batch.get_batch_path() can return.
BatchPaths == {Url, PartitionPath}
AllPaths == BatchPaths \cup {ManagementPath}

\* The network operations a call can issue.
NetOps == {"open", "session", "cbs_attach", "get_token", "cbs_authorize",
           "attach", "send", "mgmt_attach", "query", "close"}

PropertyOps == {"get_eventhub_properties", "get_partition_properties"}

VARIABLES
    connection,            \* OnceLock<AmqpConnection>: 0 is empty, else the connection
    conns,                 \* every connection whose open succeeded -> "open" | "closed" | "dropped"
    authorization_scopes,  \* HashMap<String, AccessToken>: path -> token, 0 is no entry
    scopes_lock,           \* the Mutex around authorization_scopes: its holder
    sender_instances,      \* HashMap<String, SenderInstance>: path -> sender, 0 is no entry
    senders_lock,          \* the Mutex around sender_instances: its holder
    senders,               \* every AmqpSender attached -> its link's path and the holder
                           \* of its Arc<Mutex<AmqpSender>>
    mgmt_client,           \* OnceLock<ManagementInstance>: 0 is empty, else the link
    mgmt_lock,             \* the Mutex around mgmt_client: its holder
    consumed,              \* close(self) has taken the client
    url_parses,            \* whether Url::parse accepts the client's url
    tokens,                \* tokens the credential has issued so far
    calls,                 \* calls started so far
    pc,                    \* task -> where its call is suspended, "idle" between calls
    op,                    \* task -> the call it runs (or ran last)
    arg,                   \* task -> the path of that call
    result,                \* task -> "pending" while the call runs, then what it returned
    handle,                \* task -> the sender handle ensure_sender returned
    tok,                   \* task -> the token get_token returned, until it is inserted
    net,                   \* task -> the network operations its call has issued
    raced,                 \* task -> its authorize_path call began while another call
                           \* was authorizing the same path, not yet cached
    succeeded,             \* path -> how many CBS authorizations of it and how many
                           \* attaches of its link have succeeded so far
    expired,               \* the tokens issued up to this one have passed their expires_on
    stale,                 \* task -> its call began with its path's cached token expired
    waited                 \* task -> its submit_batch has been waiting while another
                           \* call was creating the sender of the same path, and has
                           \* neither found the path's entry nor returned since

vars == <<connection, conns, authorization_scopes, scopes_lock, sender_instances,
          senders_lock, senders, mgmt_client, mgmt_lock, consumed, url_parses,
          tokens, calls, pc, op, arg, result, handle, tok, net, raced, succeeded,
          expired, stale, waited>>

caches == <<authorization_scopes, sender_instances, senders, mgmt_client>>
locks == <<scopes_lock, senders_lock, mgmt_lock>>

\* ProducerClient::new
Init ==
    /\ connection = 0
    /\ conns = <<>>
    /\ authorization_scopes = [p \in AllPaths |-> 0]
    /\ scopes_lock = NoTask
    /\ sender_instances = [p \in BatchPaths |-> 0]
    /\ senders_lock = NoTask
    /\ senders = <<>>
    /\ mgmt_client = 0
    /\ mgmt_lock = NoTask
    /\ consumed = FALSE
    /\ url_parses \in BOOLEAN
    /\ tokens = 0
    /\ calls = 0
    /\ pc = [t \in Tasks |-> "idle"]
    /\ op = [t \in Tasks |-> "none"]
    /\ arg = [t \in Tasks |-> Url]
    /\ result = [t \in Tasks |-> "none"]
    /\ handle = [t \in Tasks |-> 0]
    /\ tok = [t \in Tasks |-> 0]
    /\ net = [t \in Tasks |-> {}]
    /\ raced = [t \in Tasks |-> FALSE]
    /\ succeeded = [p \in AllPaths |-> [cbs_authorize |-> 0, attach |-> 0]]
    /\ expired = 0
    /\ stale = [t \in Tasks |-> FALSE]
    /\ waited = [t \in Tasks |-> FALSE]

\* ------------------------------------------------------------ helpers
\* A MutexGuard dropped when its owner's frame returns.
Release(lock, t) == IF lock = t THEN NoTask ELSE lock

\* The path a task's authorize_path call is about.
AuthPath(t) == IF op[t] \in PropertyOps THEN ManagementPath ELSE arg[t]

Goto(t, where) == pc' = [pc EXCEPT ![t] = where] /\ UNCHANGED waited
Issue(t, what) == net' = [net EXCEPT ![t] = @ \cup {what}]

\* The call returns r to its caller: every guard it holds is dropped.
Return(t, r) ==
    /\ pc' = [pc EXCEPT ![t] = "idle"]
    /\ result' = [result EXCEPT ![t] = r]
    /\ scopes_lock' = Release(scopes_lock, t)
    /\ senders_lock' = Release(senders_lock, t)
    /\ mgmt_lock' = Release(mgmt_lock, t)
    /\ waited' = [waited EXCEPT ![t] = FALSE]

\* A call begins on a client not yet moved into close.
Begin(t, o, p, where) ==
    /\ ~consumed
    /\ calls < MaxCalls
    /\ calls' = calls + 1
    /\ pc' = [pc EXCEPT ![t] = where]
    /\ op' = [op EXCEPT ![t] = o]
    /\ arg' = [arg EXCEPT ![t] = p]
    /\ result' = [result EXCEPT ![t] = "pending"]
    /\ net' = [net EXCEPT ![t] = {}]
    /\ handle' = [handle EXCEPT ![t] = 0]
    /\ raced' = [raced EXCEPT ![t] =
                    /\ o = "authorize_path"
                    /\ scopes_lock # NoTask
                    /\ AuthPath(scopes_lock) = p
                    /\ authorization_scopes[p] = 0]
    /\ stale' = [stale EXCEPT ![t] =
                    LET q == IF o \in PropertyOps THEN ManagementPath ELSE p IN
                    authorization_scopes[q] # 0 /\ authorization_scopes[q] <= expired]
    /\ waited' = [waited EXCEPT ![t] =
                    /\ o = "submit_batch"
                    /\ sender_instances[p] = 0
                    /\ \E u \in Tasks \ {t} :
                          /\ senders_lock = u /\ op[u] = "submit_batch" /\ arg[u] = p
                          /\ pc[u] \notin {"idle", "es_lock", "sb_lock", "sb_send"}]
    /\ UNCHANGED <<connection, conns, caches, locks, consumed, url_parses, tokens, tok,
                   succeeded, expired>>

\* ------------------------------------------------- ensure_connection
\* self.connection.get().is_none() (line 368) and connection.get() elsewhere.
cell_empty == connection = 0

\* The same with the slip of ensure_sender leaving out authorize_path: the
\* session of the sender is begun next.
ensure_connection_ok_unauthorized(t) ==
    IF op[t] = "open"
    THEN Return(t, "Ok")
    ELSE IF connection' = 0
         THEN Return(t, "MissingConnection")
         ELSE Goto(t, "es_session") /\ UNCHANGED <<result, locks>>

\* What the caller does with ensure_connection's Ok(()): open returns it
\* (lines 134-135); ensure_sender reads the cell again and goes on to
\* authorize_path, which first waits for the token cache's lock (lines 404-409).
ensure_connection_ok(t) ==
    IF op[t] = "open"
    THEN Return(t, "Ok")
    ELSE IF connection' = 0
         THEN Return(t, "MissingConnection")
         ELSE Goto(t, "ap_lock") /\ UNCHANGED <<result, locks>>

\* ensure_connection with the slip of requiring a connection instead of
\* opening one: an empty cell is answered with MissingConnection.
ensure_connection_requires_cell(t) ==
    /\ pc[t] = "ec_check"
    /\ UNCHANGED <<connection, conns>>
    /\ IF ~cell_empty
       THEN ensure_connection_ok(t) /\ UNCHANGED net
       ELSE Return(t, "MissingConnection") /\ UNCHANGED net
    /\ UNCHANGED <<caches, consumed, url_parses, tokens, calls, op, arg, handle, tok,
                   raced, succeeded, expired, stale>>

\* ensure_connection with the slip of taking the stored connection for good
\* only when it is asked for the client's own url: for another url it opens.
ensure_connection_url_compared(t) ==
    /\ pc[t] = "ec_check"
    /\ UNCHANGED <<connection, conns>>
    /\ IF ~cell_empty /\ arg[t] = Url
       THEN ensure_connection_ok(t) /\ UNCHANGED net
       ELSE IF ~url_parses
            THEN Return(t, "UrlParseError") /\ UNCHANGED net
            ELSE Goto(t, "ec_open") /\ Issue(t, "open") /\ UNCHANGED <<result, locks>>
    /\ UNCHANGED <<caches, consumed, url_parses, tokens, calls, op, arg, handle, tok, raced,
                   succeeded, expired, stale>>

\* ensure_connection up to its await (lines 368-392): nothing to do when the
\* cell is set; otherwise the url is parsed and the open is issued.
ensure_connection(t) ==
    /\ pc[t] = "ec_check"
    /\ UNCHANGED <<connection, conns>>
    /\ IF ~cell_empty
       THEN ensure_connection_ok(t) /\ UNCHANGED net
       ELSE IF ~url_parses
            THEN Return(t, "UrlParseError") /\ UNCHANGED net
            ELSE Goto(t, "ec_open") /\ Issue(t, "open") /\ UNCHANGED <<result, locks>>
    /\ UNCHANGED <<caches, consumed, url_parses, tokens, calls, op, arg, handle, tok,
                   raced, succeeded, expired, stale>>

\* The same with the slip of storing the new connection over the one stored
\* meanwhile: the cell changes hands.
ensure_connection_open_overwrites(t, ok) ==
    /\ pc[t] = "ec_open"
    /\ IF ~ok
       THEN /\ Return(t, "OpenFailed")
            /\ UNCHANGED <<connection, conns>>
       ELSE LET c == Cardinality(DOMAIN conns) + 1 IN
            /\ connection' = c
            /\ conns' = IF cell_empty
                         THEN conns @@ (c :> "open")
                         ELSE [conns EXCEPT ![connection] = "dropped"] @@ (c :> "open")
            /\ ensure_connection_ok(t)
    /\ UNCHANGED <<caches, consumed, url_parses, tokens, calls, op, arg, handle, tok, net,
                   raced, succeeded, expired, stale>>

\* The same with the slip of putting the connection into the cell before its
\* open has succeeded: a failed open leaves it there.
ensure_connection_open_stores_first(t, ok) ==
    /\ pc[t] = "ec_open"
    /\ LET c == Cardinality(DOMAIN conns) + 1 IN
       IF cell_empty
       THEN /\ connection' = c
            /\ conns' = conns @@ (c :> IF ok THEN "open" ELSE "closed")
            /\ IF ok THEN ensure_connection_ok(t) ELSE Return(t, "OpenFailed")
       ELSE /\ conns' = conns @@ (c :> "dropped")
            /\ UNCHANGED connection
            /\ Return(t, IF ok THEN "MissingConnection" ELSE "OpenFailed")
    /\ UNCHANGED <<caches, consumed, url_parses, tokens, calls, op, arg, handle, tok, net,
                   raced, succeeded, expired, stale>>

\* The open returns (lines 392-397).  A failure is returned as it is.  On
\* success the connection goes into the cell with OnceLock::set, which fails
\* when the cell was set meanwhile: the call returns MissingConnection and
\* its own connection is dropped unclosed.
ensure_connection_open_done(t, ok) ==
    /\ pc[t] = "ec_open"
    /\ IF ~ok
       THEN /\ Return(t, "OpenFailed")
            /\ UNCHANGED <<connection, conns>>
       ELSE LET c == Cardinality(DOMAIN conns) + 1 IN
            IF cell_empty
            THEN /\ connection' = c
                 /\ conns' = conns @@ (c :> "open")
                 /\ ensure_connection_ok(t)
            ELSE /\ conns' = conns @@ (c :> "dropped")
                 /\ UNCHANGED connection
                 /\ Return(t, "MissingConnection")
    /\ UNCHANGED <<caches, consumed, url_parses, tokens, calls, op, arg, handle, tok, net,
                   raced, succeeded, expired, stale>>

\* pub async fn open (lines 133-136).
open(t) ==
    /\ pc[t] = "idle"
    /\ Begin(t, "open", Url, "ec_check")

\* ------------------------------------------------------------- close
\* close with the slip of taking &self: the client stays usable.
close_by_reference(t) ==
    /\ ~consumed
    /\ \A u \in Tasks : pc[u] = "idle"
    /\ calls < MaxCalls
    /\ calls' = calls + 1
    /\ UNCHANGED consumed
    /\ op' = [op EXCEPT ![t] = "close"]
    /\ arg' = [arg EXCEPT ![t] = Url]
    /\ handle' = [handle EXCEPT ![t] = 0]
    /\ IF cell_empty
       THEN /\ pc' = pc
            /\ result' = [result EXCEPT ![t] = "MissingConnection"]
            /\ net' = [net EXCEPT ![t] = {}]
       ELSE /\ pc' = [pc EXCEPT ![t] = "cl_close"]
            /\ result' = [result EXCEPT ![t] = "pending"]
            /\ net' = [net EXCEPT ![t] = {"close"}]
    /\ raced' = [raced EXCEPT ![t] = FALSE]
    /\ stale' = [stale EXCEPT ![t] = FALSE]
    /\ waited' = [waited EXCEPT ![t] = FALSE]
    /\ UNCHANGED <<connection, conns, caches, locks, url_parses, tokens, tok, succeeded,
                   expired>>

\* close with the slip of not looking at the cell: a close is issued and
\* awaited whether or not a connection is stored.
close_unchecked(t) ==
    /\ ~consumed
    /\ \A u \in Tasks : pc[u] = "idle"
    /\ calls < MaxCalls
    /\ calls' = calls + 1
    /\ consumed' = TRUE
    /\ op' = [op EXCEPT ![t] = "close"]
    /\ arg' = [arg EXCEPT ![t] = Url]
    /\ handle' = [handle EXCEPT ![t] = 0]
    /\ pc' = [pc EXCEPT ![t] = "cl_close"]
    /\ result' = [result EXCEPT ![t] = "pending"]
    /\ net' = [net EXCEPT ![t] = {"close"}]
    /\ raced' = [raced EXCEPT ![t] = FALSE]
    /\ stale' = [stale EXCEPT ![t] = FALSE]
    /\ waited' = [waited EXCEPT ![t] = FALSE]
    /\ UNCHANGED <<connection, conns, caches, locks, url_parses, tokens, tok, succeeded,
                   expired>>

\* pub async fn close(self) up to its await (lines 143-148).  Taking self by
\* value needs every borrow of the client to have ended: no call is in
\* progress, and none can begin afterwards.
close(t) ==
    /\ ~consumed
    /\ \A u \in Tasks : pc[u] = "idle"
    /\ calls < MaxCalls
    /\ calls' = calls + 1
    /\ consumed' = TRUE
    /\ op' = [op EXCEPT ![t] = "close"]
    /\ arg' = [arg EXCEPT ![t] = Url]
    /\ handle' = [handle EXCEPT ![t] = 0]
    /\ IF cell_empty
       THEN /\ pc' = pc
            /\ result' = [result EXCEPT ![t] = "MissingConnection"]
            /\ net' = [net EXCEPT ![t] = {}]
       ELSE /\ pc' = [pc EXCEPT ![t] = "cl_close"]
            /\ result' = [result EXCEPT ![t] = "pending"]
            /\ net' = [net EXCEPT ![t] = {"close"}]
    /\ raced' = [raced EXCEPT ![t] = FALSE]
    /\ stale' = [stale EXCEPT ![t] = FALSE]
    /\ waited' = [waited EXCEPT ![t] = FALSE]
    /\ UNCHANGED <<connection, conns, caches, locks, url_parses, tokens, tok, succeeded,
                   expired>>

\* The connection's close returns (lines 148-149).
close_done(t, ok) ==
    /\ pc[t] = "cl_close"
    /\ conns' = IF ok THEN [conns EXCEPT ![connection] = "closed"] ELSE conns
    /\ Return(t, IF ok THEN "Ok" ELSE "CloseFailed")
    /\ UNCHANGED <<connection, caches, consumed, url_parses, tokens, calls, op, arg,
                   handle, tok, net, raced, succeeded, expired, stale>>

\* ---------------------------------------------------- authorize_path
\* The token cache's lock with the slip of not being held across the
\* handshake: a second call gets in.
scopes_lock_ignored == TRUE

\* self.authorization_scopes.lock().await (line 456): the lock can be taken.
scopes_lock_free == scopes_lock = NoTask

\* The lookup with the slip of never finding the path.
scopes_lookup_misses(p) == FALSE

\* The lookup with the slip of taking an expired token for no token: the
\* path is authorized again.
scopes_contains_fresh(p) == authorization_scopes[p] > expired

\* scopes.contains_key(url.as_str()) (line 460).
scopes_contains(p) == authorization_scopes[p] # 0

\* What the caller does with authorize_path's Ok(token), the token cache's
\* guard dropped: ensure_sender begins its session (lines 410-420),
\* ensure_management_client attaches the management link (lines 356-359), a
\* direct caller has its token.
authorize_path_ok(t) ==
    /\ scopes_lock' = NoTask
    /\ IF op[t] = "submit_batch"
       THEN Goto(t, "es_session") /\ Issue(t, "session")
            /\ UNCHANGED <<result, senders_lock, mgmt_lock>>
       ELSE IF op[t] \in PropertyOps
            THEN Goto(t, "mc_attach") /\ Issue(t, "mgmt_attach")
                 /\ UNCHANGED <<result, senders_lock, mgmt_lock>>
            ELSE /\ pc' = [pc EXCEPT ![t] = "idle"]
                 /\ result' = [result EXCEPT ![t] = "Ok"]
                 /\ UNCHANGED <<net, senders_lock, mgmt_lock, waited>>

\* authorize_path with the slip of not looking at the connection cell: the
\* handshake is started whether or not there is a connection.
authorize_path_unchecked(t) ==
    /\ pc[t] = "ap_lock"
    /\ scopes_lock_free
    /\ IF scopes_contains(AuthPath(t))
       THEN authorize_path_ok(t)
       ELSE /\ scopes_lock' = t
            /\ Goto(t, "ap_session") /\ Issue(t, "session")
            /\ UNCHANGED <<result, senders_lock, mgmt_lock>>
    /\ UNCHANGED <<connection, conns, caches, consumed, url_parses, tokens, calls, op,
                   arg, handle, tok, raced, succeeded, expired, stale>>

\* authorize_path up to its first await after the lock (lines 456-468): the
\* lock is taken; without a connection the call fails; a cached path returns
\* its token (lines 493-496); otherwise the ephemeral session is begun.
authorize_path(t) ==
    /\ pc[t] = "ap_lock"
    /\ scopes_lock_free
    /\ IF cell_empty
       THEN Return(t, "MissingConnection") /\ UNCHANGED net
       ELSE IF scopes_contains(AuthPath(t))
            THEN authorize_path_ok(t)
            ELSE /\ scopes_lock' = t
                 /\ Goto(t, "ap_session") /\ Issue(t, "session")
                 /\ UNCHANGED <<result, senders_lock, mgmt_lock>>
    /\ UNCHANGED <<connection, conns, caches, consumed, url_parses, tokens, calls, op,
                   arg, handle, tok, raced, succeeded, expired, stale>>

\* session.begin returns (line 468); then the CBS link is attached (line 471).
authorize_path_session_done(t, ok) ==
    /\ pc[t] = "ap_session"
    /\ IF ok
       THEN Goto(t, "ap_cbs_attach") /\ Issue(t, "cbs_attach") /\ UNCHANGED <<result, locks>>
       ELSE Return(t, "SessionFailed") /\ UNCHANGED net
    /\ UNCHANGED <<connection, conns, caches, consumed, url_parses, tokens, calls, op,
                   arg, handle, tok, raced, succeeded, expired, stale>>

\* cbs.attach returns (line 471); then the credential is asked for a token
\* (lines 474-477).
authorize_path_cbs_attach_done(t, ok) ==
    /\ pc[t] = "ap_cbs_attach"
    /\ IF ok
       THEN Goto(t, "ap_get_token") /\ Issue(t, "get_token") /\ UNCHANGED <<result, locks>>
       ELSE Return(t, "CbsAttachFailed") /\ UNCHANGED net
    /\ UNCHANGED <<connection, conns, caches, consumed, url_parses, tokens, calls, op,
                   arg, handle, tok, raced, succeeded, expired, stale>>

\* The same with the slip of caching the token as soon as the credential has
\* issued it, before the CBS peer has accepted it.
authorize_path_get_token_caches(t, ok) ==
    /\ pc[t] = "ap_get_token"
    /\ IF ok
       THEN /\ tokens' = tokens + 1
            /\ tok' = [tok EXCEPT ![t] = tokens + 1]
            /\ authorization_scopes' =
                   [authorization_scopes EXCEPT ![AuthPath(t)] = tokens + 1]
            /\ Goto(t, "ap_cbs_authorize") /\ Issue(t, "cbs_authorize")
            /\ UNCHANGED <<result, locks>>
       ELSE Return(t, "GetTokenFailed") /\ UNCHANGED <<net, tokens, tok, authorization_scopes>>
    /\ UNCHANGED <<connection, conns, sender_instances, senders, mgmt_client, consumed,
                   url_parses, calls, op, arg, handle, raced, succeeded, expired, stale>>

\* get_token returns (line 477); then the token is put to the CBS peer for the
\* path (lines 480-486).
authorize_path_get_token_done(t, ok) ==
    /\ pc[t] = "ap_get_token"
    /\ IF ok
       THEN /\ tokens' = tokens + 1
            /\ tok' = [tok EXCEPT ![t] = tokens + 1]
            /\ Goto(t, "ap_cbs_authorize") /\ Issue(t, "cbs_authorize")
            /\ UNCHANGED <<result, locks>>
       ELSE Return(t, "GetTokenFailed") /\ UNCHANGED <<net, tokens, tok>>
    /\ UNCHANGED <<connection, conns, caches, consumed, url_parses, calls, op, arg, handle,
                   raced, succeeded, expired, stale>>

\* cbs.authorize_path returns (lines 486-496).  HashMap::insert stores the new
\* token and returns the entry it replaced, if any: the call fails when there
\* was one.
authorize_path_cbs_authorize_done(t, ok) ==
    /\ pc[t] = "ap_cbs_authorize"
    /\ tok' = [tok EXCEPT ![t] = 0]
    /\ IF ok
       THEN LET present == authorization_scopes[AuthPath(t)] IN
            /\ authorization_scopes' = [authorization_scopes EXCEPT ![AuthPath(t)] = tok[t]]
            /\ succeeded' = [succeeded EXCEPT ![AuthPath(t)].cbs_authorize = @ + 1]
            /\ IF present # 0
               THEN Return(t, "UnableToAddAuthenticationToken") /\ UNCHANGED net
               ELSE authorize_path_ok(t)
       ELSE /\ Return(t, "CbsAuthorizeFailed")
            /\ UNCHANGED <<net, authorization_scopes, succeeded>>
    /\ UNCHANGED <<connection, conns, sender_instances, senders, mgmt_client, consumed,
                   url_parses, tokens, calls, op, arg, handle, raced,
                   expired, stale>>

\* ------------------------------------------- ensure_sender, submit_batch
\* The sender map's lock with the slip of not excluding a second caller.
senders_lock_ignored == TRUE

\* self.sender_instances.lock().await (line 401): the lock can be taken.
senders_lock_free == senders_lock = NoTask

\* The senders with the slip of sharing one lock among them all.
one_lock_for_all_senders(s) == \A x \in DOMAIN senders : senders[x].lock = NoTask

\* sender.lock().await (lines 234-236): the sender's own lock can be taken.
sender_lock_free(s) == senders[s].lock = NoTask

\* pub async fn submit_batch (line 230-231): ensure_sender(batch.get_batch_path()).
submit_batch(t, p) ==
    /\ pc[t] = "idle"
    /\ Begin(t, "submit_batch", p, "es_lock")

\* The callers found waiting at the sender map's lock for a path, besides t,
\* when t sets out to create the path's sender.
Waiting(t) ==
    [u \in Tasks |->
        IF u # t /\ pc[u] = "es_lock" /\ arg[u] = arg[t] THEN TRUE ELSE waited[u]]

\* ensure_sender with the slip of dropping the map's guard after the lookup,
\* before the sender is created.
ensure_sender_guard_dropped(t) ==
    /\ pc[t] = "es_lock"
    /\ senders_lock_free
    /\ UNCHANGED senders_lock
    /\ IF sender_instances[arg[t]] # 0
       THEN /\ handle' = [handle EXCEPT ![t] = sender_instances[arg[t]]]
            /\ pc' = [pc EXCEPT ![t] = "sb_lock"]
            /\ waited' = [waited EXCEPT ![t] = FALSE]
       ELSE /\ Goto(t, "ec_check")
            /\ UNCHANGED handle
    /\ UNCHANGED <<connection, conns, caches, scopes_lock, mgmt_lock, consumed, url_parses,
                   tokens, calls, op, arg, result, tok, net, raced, succeeded,
                   expired, stale>>

\* ensure_sender with the slip of a waiting caller taking the failure of the
\* creation it waited for: it returns the error without creating.
ensure_sender_shares_failure(t) ==
    /\ pc[t] = "es_lock"
    /\ senders_lock_free
    /\ IF sender_instances[arg[t]] # 0
       THEN /\ handle' = [handle EXCEPT ![t] = sender_instances[arg[t]]]
            /\ pc' = [pc EXCEPT ![t] = "sb_lock"]
            /\ waited' = [waited EXCEPT ![t] = FALSE]
            /\ UNCHANGED <<result, locks>>
       ELSE IF waited[t]
            THEN Return(t, "AttachFailed") /\ UNCHANGED handle
            ELSE /\ senders_lock' = t
                 /\ pc' = [pc EXCEPT ![t] = "ec_check"]
                 /\ waited' = Waiting(t)
                 /\ UNCHANGED <<result, handle, scopes_lock, mgmt_lock>>
    /\ UNCHANGED <<connection, conns, caches, consumed, url_parses, tokens, calls, op,
                   arg, tok, net, raced, succeeded, expired, stale>>

\* ensure_sender with the slip of looking the path up before taking the lock:
\* a stored sender is handed out while another path's sender is being
\* created.
ensure_sender_lookup_unlocked(t) ==
    /\ pc[t] = "es_lock"
    /\ IF sender_instances[arg[t]] # 0
       THEN /\ handle' = [handle EXCEPT ![t] = sender_instances[arg[t]]]
            /\ pc' = [pc EXCEPT ![t] = "sb_lock"]
            /\ waited' = [waited EXCEPT ![t] = FALSE]
            /\ UNCHANGED senders_lock
       ELSE /\ senders_lock_free
            /\ senders_lock' = t
            /\ pc' = [pc EXCEPT ![t] = "ec_check"]
            /\ waited' = Waiting(t)
            /\ UNCHANGED handle
    /\ UNCHANGED <<connection, conns, caches, scopes_lock, mgmt_lock, consumed, url_parses,
                   tokens, calls, op, arg, result, tok, net, raced, succeeded,
                   expired, stale>>

\* ensure_sender with the slip of not looking the path up: a sender is created
\* on every call.
ensure_sender_always_creates(t) ==
    /\ pc[t] = "es_lock"
    /\ senders_lock_free
    /\ senders_lock' = t
    /\ Goto(t, "ec_check")
    /\ UNCHANGED <<connection, conns, caches, scopes_lock, mgmt_lock, consumed, url_parses,
                   tokens, calls, op, arg, result, handle, tok, net, raced, succeeded,
                   expired, stale>>

\* ensure_sender up to its first await after the lock (lines 401-403, 447-451):
\* with an entry for the path its handle is returned and the guard dropped;
\* without one the guard is kept and ensure_connection is entered.
ensure_sender(t) ==
    /\ pc[t] = "es_lock"
    /\ senders_lock_free
    /\ IF sender_instances[arg[t]] # 0
       THEN /\ handle' = [handle EXCEPT ![t] = sender_instances[arg[t]]]
            /\ pc' = [pc EXCEPT ![t] = "sb_lock"]
            /\ waited' = [waited EXCEPT ![t] = FALSE]
            /\ UNCHANGED senders_lock
       ELSE /\ senders_lock' = t
            /\ pc' = [pc EXCEPT ![t] = "ec_check"]
            /\ waited' = Waiting(t)
            /\ UNCHANGED handle
    /\ UNCHANGED <<connection, conns, caches, scopes_lock, mgmt_lock, consumed, url_parses,
                   tokens, calls, op, arg, result, tok, net, raced, succeeded,
                   expired, stale>>

\* The same with the slip of inserting the path's entry as soon as the session
\* is begun, before the link is attached.
ensure_sender_session_inserts(t, ok) ==
    /\ pc[t] = "es_session"
    /\ IF ok
       THEN /\ sender_instances' =
                   [sender_instances EXCEPT ![arg[t]] = Cardinality(DOMAIN senders) + 1]
            /\ Goto(t, "es_attach") /\ Issue(t, "attach") /\ UNCHANGED <<result, locks>>
       ELSE Return(t, "SessionFailed") /\ UNCHANGED <<net, sender_instances>>
    /\ UNCHANGED <<connection, conns, authorization_scopes, senders, mgmt_client, consumed,
                   url_parses, tokens, calls, op, arg, handle, tok, raced, succeeded,
                   expired, stale>>

\* The same with the slip of undoing the authorization when the session
\* cannot be begun: the path's token is taken out of the cache.
ensure_sender_session_forgets_token(t, ok) ==
    /\ pc[t] = "es_session"
    /\ IF ok
       THEN /\ Goto(t, "es_attach") /\ Issue(t, "attach")
            /\ UNCHANGED <<result, locks, authorization_scopes>>
       ELSE /\ Return(t, "SessionFailed")
            /\ authorization_scopes' = [authorization_scopes EXCEPT ![arg[t]] = 0]
            /\ UNCHANGED net
    /\ UNCHANGED <<connection, conns, sender_instances, senders, mgmt_client, consumed,
                   url_parses, tokens, calls, op, arg, handle, tok, raced, succeeded,
                   expired, stale>>

\* The sender's session.begin returns (lines 411-420); then the link is
\* attached (lines 421-438).
ensure_sender_session_done(t, ok) ==
    /\ pc[t] = "es_session"
    /\ IF ok
       THEN Goto(t, "es_attach") /\ Issue(t, "attach") /\ UNCHANGED <<result, locks>>
       ELSE Return(t, "SessionFailed") /\ UNCHANGED net
    /\ UNCHANGED <<connection, conns, caches, consumed, url_parses, tokens, calls, op,
                   arg, handle, tok, raced, succeeded, expired, stale>>

\* sender.attach returning, with the slip of the map's guard living on in
\* submit_batch: it is held while the sender's lock is awaited and the send is
\* in flight.
ensure_sender_attach_keeps_guard(t, ok) ==
    /\ pc[t] = "es_attach"
    /\ IF ok
       THEN LET s == Cardinality(DOMAIN senders) + 1 IN
            /\ sender_instances' = [sender_instances EXCEPT ![arg[t]] = s]
            /\ senders' = senders @@ (s :> [path |-> arg[t], lock |-> NoTask])
            /\ succeeded' = [succeeded EXCEPT ![arg[t]].attach = @ + 1]
            /\ handle' = [handle EXCEPT ![t] = s]
            /\ Goto(t, "sb_lock")
            /\ UNCHANGED <<result, locks>>
       ELSE /\ Return(t, "AttachFailed")
            /\ UNCHANGED <<sender_instances, senders, handle, succeeded>>
    /\ UNCHANGED <<connection, conns, authorization_scopes, mgmt_client, consumed,
                   url_parses, tokens, calls, op, arg, tok, net, raced, expired, stale>>

\* The same with the slip of retrying: after a failed attach the session is
\* begun again and the attach repeated.
ensure_sender_attach_retries(t, ok) ==
    /\ pc[t] = "es_attach"
    /\ IF ok
       THEN LET s == Cardinality(DOMAIN senders) + 1 IN
            /\ sender_instances' = [sender_instances EXCEPT ![arg[t]] = s]
            /\ senders' = senders @@ (s :> [path |-> arg[t], lock |-> NoTask])
            /\ succeeded' = [succeeded EXCEPT ![arg[t]].attach = @ + 1]
            /\ handle' = [handle EXCEPT ![t] = s]
            /\ Goto(t, "sb_lock")
            /\ senders_lock' = Release(senders_lock, t)
            /\ UNCHANGED <<result, scopes_lock, mgmt_lock>>
       ELSE /\ Goto(t, "es_session")
            /\ UNCHANGED <<sender_instances, senders, handle, succeeded, result, locks>>
    /\ UNCHANGED <<connection, conns, authorization_scopes, mgmt_client, consumed,
                   url_parses, tokens, calls, op, arg, tok, net, raced, expired, stale>>

\* sender.attach returns (lines 438-451): the new sender is inserted under the
\* path (HashMap::insert replaces an entry that is there), looked up again and
\* its handle returned; the map's guard is dropped.
ensure_sender_attach_done(t, ok) ==
    /\ pc[t] = "es_attach"
    /\ IF ok
       THEN LET s == Cardinality(DOMAIN senders) + 1 IN
            /\ sender_instances' = [sender_instances EXCEPT ![arg[t]] = s]
            /\ senders' = senders @@ (s :> [path |-> arg[t], lock |-> NoTask])
            /\ succeeded' = [succeeded EXCEPT ![arg[t]].attach = @ + 1]
            /\ IF sender_instances'[arg[t]] = 0
               THEN Return(t, "MissingMessageSender") /\ UNCHANGED handle
               ELSE /\ handle' = [handle EXCEPT ![t] = sender_instances'[arg[t]]]
                    /\ Goto(t, "sb_lock")
                    /\ senders_lock' = Release(senders_lock, t)
                    /\ UNCHANGED <<result, scopes_lock, mgmt_lock>>
       ELSE /\ Return(t, "AttachFailed")
            /\ UNCHANGED <<sender_instances, senders, handle, succeeded>>
    /\ UNCHANGED <<connection, conns, authorization_scopes, mgmt_client, consumed,
                   url_parses, tokens, calls, op, arg, tok, net, raced,
                   expired, stale>>

\* submit_batch with the slip of sending without waiting for the sender's
\* lock.
submit_batch_without_lock(t) ==
    /\ pc[t] = "sb_lock"
    /\ senders' = [senders EXCEPT ![handle[t]].lock = t]
    /\ Goto(t, "sb_send") /\ Issue(t, "send")
    /\ UNCHANGED <<connection, conns, authorization_scopes, sender_instances, mgmt_client,
                   locks, consumed, url_parses, tokens, calls, op, arg, result, handle, tok,
                   raced, succeeded, expired, stale>>

\* submit_batch takes the sender's lock and issues the send (lines 234-244).
submit_batch_lock(t) ==
    /\ pc[t] = "sb_lock"
    /\ sender_lock_free(handle[t])
    /\ senders' = [senders EXCEPT ![handle[t]].lock = t]
    /\ Goto(t, "sb_send") /\ Issue(t, "send")
    /\ UNCHANGED <<connection, conns, authorization_scopes, sender_instances, mgmt_client,
                   locks, consumed, url_parses, tokens, calls, op, arg, result, handle, tok,
                   raced, succeeded, expired, stale>>

\* The send returns (lines 244-245): the sender's guard is dropped.
submit_batch_send_done(t, ok) ==
    /\ pc[t] = "sb_send"
    /\ senders' = [senders EXCEPT ![handle[t]].lock = Release(@, t)]
    /\ Return(t, IF ok THEN "Ok" ELSE "SendFailed")
    /\ UNCHANGED <<connection, conns, authorization_scopes, sender_instances, mgmt_client,
                   consumed, url_parses, tokens, calls, op, arg, handle, tok, net,
                   raced, succeeded, expired, stale>>

\* ------------------------------ ensure_management_client, get_*_properties
\* The management cell's lock with the slip of not excluding a second caller.
mgmt_lock_ignored == TRUE

\* self.mgmt_client.lock().await (lines 331, 274-276, 315-317).
mgmt_lock_free == mgmt_lock = NoTask

\* pub async fn get_eventhub_properties, get_partition_properties
\* (lines 271-272, 309-313): ensure_management_client first.
get_properties(t, o) ==
    /\ pc[t] = "idle"
    /\ Begin(t, o, ManagementPath, "mc_lock")

\* ensure_management_client with the slip of not looking at the connection
\* cell: the management session is begun whether or not there is a connection.
ensure_management_client_unchecked(t) ==
    /\ pc[t] = "mc_lock"
    /\ mgmt_lock_free
    /\ IF mgmt_client # 0
       THEN Goto(t, "gp_lock") /\ UNCHANGED <<result, locks, net>>
       ELSE /\ mgmt_lock' = t
            /\ Goto(t, "mc_session") /\ Issue(t, "session")
            /\ UNCHANGED <<result, scopes_lock, senders_lock>>
    /\ UNCHANGED <<connection, conns, caches, consumed, url_parses, tokens, calls, op,
                   arg, handle, tok, raced, succeeded, expired, stale>>

\* ensure_management_client up to its first await after the lock
\* (lines 331-350): a no-op when the cell is set; MissingConnection without a
\* connection; otherwise the management session is begun.
ensure_management_client(t) ==
    /\ pc[t] = "mc_lock"
    /\ mgmt_lock_free
    /\ IF mgmt_client # 0
       THEN Goto(t, "gp_lock") /\ UNCHANGED <<result, locks, net>>
       ELSE IF cell_empty
            THEN Return(t, "MissingConnection") /\ UNCHANGED net
            ELSE /\ mgmt_lock' = t
                 /\ Goto(t, "mc_session") /\ Issue(t, "session")
                 /\ UNCHANGED <<result, scopes_lock, senders_lock>>
    /\ UNCHANGED <<connection, conns, caches, consumed, url_parses, tokens, calls, op,
                   arg, handle, tok, raced, succeeded, expired, stale>>

\* The same with the slip of leaving out authorize_path: the management link
\* is attached next.
ensure_management_client_session_unauthorized(t, ok) ==
    /\ pc[t] = "mc_session"
    /\ IF ok
       THEN Goto(t, "mc_attach") /\ Issue(t, "mgmt_attach") /\ UNCHANGED <<result, locks>>
       ELSE Return(t, "SessionFailed") /\ UNCHANGED net
    /\ UNCHANGED <<connection, conns, caches, consumed, url_parses, tokens, calls, op,
                   arg, handle, tok, raced, succeeded, expired, stale>>

\* The management session.begin returns (line 350); then the management path
\* is authorized (lines 353-354).
ensure_management_client_session_done(t, ok) ==
    /\ pc[t] = "mc_session"
    /\ IF ok
       THEN Goto(t, "ap_lock") /\ UNCHANGED <<result, locks>>
       ELSE Return(t, "SessionFailed")
    /\ UNCHANGED <<connection, conns, caches, consumed, url_parses, tokens, calls, op,
                   arg, handle, tok, net, raced, succeeded, expired, stale>>

\* The same with the slip of ensure_management_client's guard living on in
\* get_*_properties, which locks the cell again.
ensure_management_client_attach_keeps_guard(t, ok) ==
    /\ pc[t] = "mc_attach"
    /\ IF ok
       THEN /\ succeeded' = [succeeded EXCEPT ![ManagementPath].attach = @ + 1]
            /\ IF mgmt_client # 0
               THEN Return(t, "MissingManagementClient") /\ UNCHANGED mgmt_client
               ELSE /\ mgmt_client' = succeeded'[ManagementPath].attach
                    /\ Goto(t, "gp_lock")
                    /\ UNCHANGED <<result, locks>>
       ELSE Return(t, "ManagementAttachFailed") /\ UNCHANGED <<mgmt_client, succeeded>>
    /\ UNCHANGED <<connection, conns, authorization_scopes, sender_instances, senders,
                   consumed, url_parses, tokens, calls, op, arg, handle, tok, net, raced,
                   expired, stale>>

\* management.attach returns (lines 359-364): the link goes into the cell with
\* OnceLock::set, which fails when the cell is set; the guard is dropped.
ensure_management_client_attach_done(t, ok) ==
    /\ pc[t] = "mc_attach"
    /\ IF ok
       THEN /\ succeeded' = [succeeded EXCEPT ![ManagementPath].attach = @ + 1]
            /\ IF mgmt_client # 0
               THEN Return(t, "MissingManagementClient") /\ UNCHANGED mgmt_client
               ELSE /\ mgmt_client' = succeeded'[ManagementPath].attach
                    /\ Goto(t, "gp_lock")
                    /\ mgmt_lock' = Release(mgmt_lock, t)
                    /\ UNCHANGED <<result, scopes_lock, senders_lock>>
       ELSE Return(t, "ManagementAttachFailed") /\ UNCHANGED <<mgmt_client, succeeded>>
    /\ UNCHANGED <<connection, conns, authorization_scopes, sender_instances, senders,
                   consumed, url_parses, tokens, calls, op, arg, handle, tok, net, raced,
                   expired, stale>>

\* get_*_properties with the slip of dropping the cell's guard once the link
\* is looked up: the query is in flight without the lock.
get_properties_lock_guard_dropped(t) ==
    /\ pc[t] = "gp_lock"
    /\ mgmt_lock_free
    /\ IF mgmt_client = 0
       THEN Return(t, "MissingManagementClient") /\ UNCHANGED net
       ELSE /\ Goto(t, "gp_query") /\ Issue(t, "query")
            /\ UNCHANGED <<result, locks>>
    /\ UNCHANGED <<connection, conns, caches, consumed, url_parses, tokens, calls, op,
                   arg, handle, tok, raced, succeeded, expired, stale>>

\* get_*_properties takes the cell's lock again and issues the query through
\* the link (lines 274-280, 315-321); the guard lives until the query returns.
get_properties_lock(t) ==
    /\ pc[t] = "gp_lock"
    /\ mgmt_lock_free
    /\ IF mgmt_client = 0
       THEN Return(t, "MissingManagementClient") /\ UNCHANGED net
       ELSE /\ mgmt_lock' = t
            /\ Goto(t, "gp_query") /\ Issue(t, "query")
            /\ UNCHANGED <<result, scopes_lock, senders_lock>>
    /\ UNCHANGED <<connection, conns, caches, consumed, url_parses, tokens, calls, op,
                   arg, handle, tok, raced, succeeded, expired, stale>>

\* The query returns (lines 280-281, 321-322).
get_properties_query_done(t, ok) ==
    /\ pc[t] = "gp_query"
    /\ Return(t, IF ok THEN "Ok" ELSE "QueryFailed")
    /\ UNCHANGED <<connection, conns, caches, consumed, url_parses, tokens, calls, op,
                   arg, handle, tok, net, raced, succeeded, expired, stale>>

\* async fn authorize_path called by itself, as code of the producer module
\* and of its child modules can (lines 454-457).
authorize_path_call(t, p) ==
    /\ pc[t] = "idle"
    /\ Begin(t, "authorize_path", p, "ap_lock")

\* ------------------------------------------------------ specification
Next ==
    \E t \in Tasks :
        \/ open(t)
        \/ close(t)
        \/ \E p \in BatchPaths : submit_batch(t, p)
        \/ \E o \in PropertyOps : get_properties(t, o)
        \/ ensure_connection(t)
        \/ \E ok \in BOOLEAN : ensure_connection_open_done(t, ok)
        \/ \E ok \in BOOLEAN : close_done(t, ok)
        \/ authorize_path(t)
        \/ \E ok \in BOOLEAN : authorize_path_session_done(t, ok)
        \/ \E ok \in BOOLEAN : authorize_path_cbs_attach_done(t, ok)
        \/ \E ok \in BOOLEAN : authorize_path_get_token_done(t, ok)
        \/ \E ok \in BOOLEAN : authorize_path_cbs_authorize_done(t, ok)
        \/ ensure_sender(t)
        \/ \E ok \in BOOLEAN : ensure_sender_session_done(t, ok)
        \/ \E ok \in BOOLEAN : ensure_sender_attach_done(t, ok)
        \/ submit_batch_lock(t)
        \/ \E ok \in BOOLEAN : submit_batch_send_done(t, ok)
        \/ ensure_management_client(t)
        \/ \E ok \in BOOLEAN : ensure_management_client_session_done(t, ok)
        \/ \E ok \in BOOLEAN : ensure_management_client_attach_done(t, ok)
        \/ get_properties_lock(t)
        \/ \E ok \in BOOLEAN : get_properties_query_done(t, ok)

\* The client used through its public operations.
Spec == Init /\ [][Next]_vars

\* A call in flight goes on: a lock is taken, or a network operation returns.
Continue(t) ==
    \/ ensure_connection(t)
    \/ \E ok \in BOOLEAN : ensure_connection_open_done(t, ok)
    \/ \E ok \in BOOLEAN : close_done(t, ok)
    \/ authorize_path(t)
    \/ \E ok \in BOOLEAN : authorize_path_session_done(t, ok)
    \/ \E ok \in BOOLEAN : authorize_path_cbs_attach_done(t, ok)
    \/ \E ok \in BOOLEAN : authorize_path_get_token_done(t, ok)
    \/ \E ok \in BOOLEAN : authorize_path_cbs_authorize_done(t, ok)
    \/ ensure_sender(t)
    \/ \E ok \in BOOLEAN : ensure_sender_session_done(t, ok)
    \/ \E ok \in BOOLEAN : ensure_sender_attach_done(t, ok)
    \/ submit_batch_lock(t)
    \/ \E ok \in BOOLEAN : submit_batch_send_done(t, ok)
    \/ ensure_management_client(t)
    \/ \E ok \in BOOLEAN : ensure_management_client_session_done(t, ok)
    \/ \E ok \in BOOLEAN : ensure_management_client_attach_done(t, ok)
    \/ get_properties_lock(t)
    \/ \E ok \in BOOLEAN : get_properties_query_done(t, ok)

\* The same client where every network operation eventually returns and the
\* executor runs every task that can run.
SpecLive == Spec /\ \A t \in Tasks : WF_vars(Continue(t))

\* The client used through its public operations and through direct calls of
\* authorize_path.
NextAuthorize ==
    \/ Next
    \/ \E t \in Tasks : \E p \in AllPaths : authorize_path_call(t, p)

SpecAuthorize == Init /\ [][NextAuthorize]_vars

\* The caller drops the future of its open, submit_batch or get_*_properties
\* call at the await where it is suspended (lines 133-136, 230-246, 271-281,
\* 309-322 and what they call): the call never resumes, and the guards and
\* locals its frames hold are dropped.
abandon(t) ==
    /\ pc[t] \notin {"idle", "ec_check"}
    /\ op[t] \in {"open", "submit_batch"} \cup PropertyOps
    /\ Return(t, "Abandoned")
    /\ senders' = [s \in DOMAIN senders |-> [senders[s] EXCEPT !.lock = Release(@, t)]]
    /\ tok' = [tok EXCEPT ![t] = 0]
    /\ UNCHANGED <<connection, conns, authorization_scopes, sender_instances, mgmt_client,
                   consumed, url_parses, tokens, calls, op, arg, handle, net, raced,
                   succeeded, expired, stale>>

\* The client used through its public operations by callers that may abandon
\* a call in flight.
NextAbandon ==
    \/ Next
    \/ \E t \in Tasks : abandon(t)

SpecAbandon == Init /\ [][NextAbandon]_vars

\* Time passes the expires_on (line 479) of every token issued so far.
expire ==
    /\ expired < tokens
    /\ expired' = tokens
    /\ UNCHANGED <<connection, conns, caches, locks, consumed, url_parses, tokens, calls,
                   pc, op, arg, result, handle, tok, net, raced, succeeded, stale, waited>>

\* The client used through its public operations while its tokens expire.
NextExpiry ==
    \/ Next
    \/ expire

SpecExpiry == Init /\ [][NextExpiry]_vars

\* The client used by submit_batch calls, any number of them at a time, and
\* opened, if at all, by an open that runs while no other call does.
NextSubmit ==
    \E t \in Tasks :
        \/ (\A u \in Tasks : pc[u] = "idle") /\ open(t)
        \/ (\A u \in Tasks : op[u] = "open" => pc[u] = "idle")
              /\ \E p \in BatchPaths : submit_batch(t, p)
        \/ ensure_connection(t)
        \/ \E ok \in BOOLEAN : ensure_connection_open_done(t, ok)
        \/ authorize_path(t)
        \/ \E ok \in BOOLEAN : authorize_path_session_done(t, ok)
        \/ \E ok \in BOOLEAN : authorize_path_cbs_attach_done(t, ok)
        \/ \E ok \in BOOLEAN : authorize_path_get_token_done(t, ok)
        \/ \E ok \in BOOLEAN : authorize_path_cbs_authorize_done(t, ok)
        \/ ensure_sender(t)
        \/ \E ok \in BOOLEAN : ensure_sender_session_done(t, ok)
        \/ \E ok \in BOOLEAN : ensure_sender_attach_done(t, ok)
        \/ submit_batch_lock(t)
        \/ \E ok \in BOOLEAN : submit_batch_send_done(t, ok)

SpecSubmit == Init /\ [][NextSubmit]_vars

\* ------------------------------------------------------------ claims
\* The positions of a submit_batch call inside ensure_sender's creation of a
\* sender, from the lookup that found no entry to the insert.
Creating(t) ==
    /\ op[t] = "submit_batch"
    /\ pc[t] \in {"ec_check", "ec_open", "ap_lock", "ap_session", "ap_cbs_attach",
                  "ap_get_token", "ap_cbs_authorize", "es_session", "es_attach"}

\* The positions of authorize_path between its session.begin and its insert.
InHandshake(t) ==
    pc[t] \in {"ap_session", "ap_cbs_attach", "ap_get_token", "ap_cbs_authorize"}

\* close has been called on the client.
CloseCalled == \E t \in Tasks : op[t] = "close"

\* C1: concurrent ensure_connection calls that start while the cell is empty
\* collapse into one underlying open and share its outcome: no two opens are in
\* flight together, no second connection is ever opened, and no open() fails
\* with MissingConnection beside one that stored a connection.
C1_SingleOpen ==
    /\ Cardinality({t \in Tasks : pc[t] = "ec_open"}) <= 1
    /\ Cardinality(DOMAIN conns) <= 1
    /\ \A t \in Tasks : op[t] = "open" => result[t] # "MissingConnection"

\* C2 as stated: a submit_batch that finds the connection cell empty fails
\* with MissingConnection and issues no network operation.
C2_EmptyCellSubmitFails ==
    [][\A t \in Tasks :
          (op[t] = "submit_batch" /\ pc[t] = "ec_check" /\ cell_empty
             /\ pc'[t] # "ec_check")
          => (result'[t] = "MissingConnection" /\ net'[t] = {})]_vars

\* C2 as amended: a submit_batch that finds the connection cell empty issues
\* one connection open (or, with an unparsable url, fails before any network
\* operation); when that open fails, or its connection cannot be stored, the
\* call returns that error having issued nothing but the open, and the token
\* cache, the sender map and the management cell are as they were.
C2_EmptyCellSubmitOpens ==
    [][\A t \in Tasks : op[t] = "submit_batch" =>
          /\ (pc[t] = "ec_check" /\ cell_empty /\ pc'[t] # "ec_check") =>
                /\ UNCHANGED caches
                /\ IF url_parses
                   THEN pc'[t] = "ec_open" /\ result'[t] = "pending" /\ net'[t] = {"open"}
                   ELSE pc'[t] = "idle" /\ result'[t] = "UrlParseError" /\ net'[t] = {}
          /\ (pc[t] = "ec_open" /\ pc'[t] = "idle") =>
                /\ UNCHANGED caches
                /\ result'[t] \in {"OpenFailed", "MissingConnection"}
                /\ net'[t] = {"open"}
                /\ senders_lock' # t]_vars

\* C2's case: a submit_batch on a never-opened client has returned its open's
\* failure, with the cell and the caches still empty.
C2_Witness ==
    \E t \in Tasks :
        /\ op[t] = "submit_batch" /\ result[t] = "OpenFailed" /\ net[t] = {"open"}
        /\ cell_empty
        /\ \A p \in AllPaths : authorization_scopes[p] = 0
        /\ \A p \in BatchPaths : sender_instances[p] = 0

\* C3: at most one sender link is ever attached for a path; the map's entry
\* for a path is that sender; no two calls create a sender for one path at a
\* time, and who creates holds the map's lock; every handle a call got for a
\* path is the one stored sender.
C3_OneSenderPerPath ==
    /\ \A s1, s2 \in DOMAIN senders : senders[s1].path = senders[s2].path => s1 = s2
    /\ \A p \in BatchPaths :
          sender_instances[p] # 0 =>
              /\ sender_instances[p] \in DOMAIN senders
              /\ senders[sender_instances[p]].path = p
    /\ \A t \in Tasks : Creating(t) => senders_lock = t /\ sender_instances[arg[t]] = 0
    /\ \A t \in Tasks :
          (op[t] = "submit_batch" /\ handle[t] # 0) => handle[t] = sender_instances[arg[t]]

\* C3's case: two calls for one path hold the same handle, one sending and
\* one waiting for the sender.
C3_Witness ==
    \E t, u \in Tasks :
        /\ t # u /\ arg[t] = arg[u]
        /\ pc[t] = "sb_send" /\ pc[u] = "sb_lock"
        /\ handle[t] = handle[u] /\ handle[t] # 0

\* C4 as stated: a sender creation in progress for P does not block a call
\* that wants to create a sender for Q # P.
C4_CreationDoesNotBlock ==
    \A t, u \in Tasks :
        (Creating(t) /\ pc[u] = "es_lock" /\ op[u] = "submit_batch" /\ arg[u] # arg[t])
        => ENABLED ensure_sender(u)

\* C4 as amended: sender creations serialize on the sender map's lock, whatever
\* their paths: at most one is in progress, and while it is, a call for
\* another path waits at the lock; it is not failed, it is still pending.
C4_CreationsSerialize ==
    \A t, u \in Tasks :
        (t # u /\ Creating(t)) =>
            /\ ~Creating(u)
            /\ (pc[u] = "es_lock" => (~ENABLED ensure_sender(u)) /\ result[u] = "pending")

\* C4's case: a creation for one path is suspended at its link attach while a
\* call for another path waits.
C4_Witness ==
    \E t, u \in Tasks :
        /\ Creating(t) /\ pc[t] = "es_attach"
        /\ pc[u] = "es_lock" /\ arg[u] # arg[t]

\* C5: a send in flight holds no lock but its sender's.  With no sender
\* creation in progress a call can look its sender up at once; a call waiting
\* for a sender's lock is held up only by a send in flight on that same
\* sender, which is a send to the same path; senders of different paths are
\* different senders.
C5_SendWaitsOnlyForOwnSender ==
    /\ \A u \in Tasks :
          (pc[u] = "es_lock" /\ \A t \in Tasks : ~Creating(t)) => ENABLED ensure_sender(u)
    /\ \A u \in Tasks :
          (pc[u] = "sb_lock" /\ ~ENABLED submit_batch_lock(u)) =>
              \E t \in Tasks :
                  t # u /\ pc[t] = "sb_send" /\ handle[t] = handle[u] /\ arg[t] = arg[u]
    /\ \A t, u \in Tasks :
          (pc[t] \in {"sb_lock", "sb_send"} /\ pc[u] \in {"sb_lock", "sb_send"}
             /\ arg[t] # arg[u]) => handle[t] # handle[u]

\* C5's case: sends on two different paths are in flight together.
C5_Witness ==
    \E t, u \in Tasks : pc[t] = "sb_send" /\ pc[u] = "sb_send" /\ arg[t] # arg[u]

\* C6: at most one send is in flight on a sender, and who sends holds the
\* sender's lock, so a second call for the path starts its send only after the
\* first has returned.
C6_SendsSerialize ==
    /\ \A t, u \in Tasks :
          (pc[t] = "sb_send" /\ pc[u] = "sb_send" /\ handle[t] = handle[u]) => t = u
    /\ \A t \in Tasks : pc[t] = "sb_send" => senders[handle[t]].lock = t
    /\ \A s \in DOMAIN senders :
          senders[s].lock # NoTask =>
              pc[senders[s].lock] = "sb_send" /\ handle[senders[s].lock] = s

\* C6's case: one call sends on a sender while another waits for it.
C6_Witness ==
    \E t, u \in Tasks :
        /\ t # u /\ pc[t] = "sb_send" /\ pc[u] = "sb_lock" /\ handle[t] = handle[u]
        /\ ~ENABLED submit_batch_lock(u)

\* C7: a path has one token entry, which never changes once inserted, and an
\* authorize_path for a cached path goes on with the cached token: it begins
\* no session, asks for no token and puts nothing to the CBS peer.
C7_AuthorizeIdempotent ==
    /\ [](\A t \in Tasks : InHandshake(t) => authorization_scopes[AuthPath(t)] = 0)
    /\ [][/\ \A p \in AllPaths :
                authorization_scopes[p] # 0 =>
                    authorization_scopes'[p] = authorization_scopes[p]
          /\ \A t \in Tasks :
                (pc[t] = "ap_lock" /\ pc'[t] # "ap_lock"
                   /\ scopes_contains(AuthPath(t))) =>
                    /\ pc'[t] \in {"es_session", "mc_attach", "idle"}
                    /\ tokens' = tokens
                    /\ result'[t] \in {"pending", "Ok"}
                    /\ net'[t] \cap {"cbs_attach", "get_token", "cbs_authorize"}
                         = net[t] \cap {"cbs_attach", "get_token", "cbs_authorize"}]_vars

\* C7's case: authorize_path on a cached path has returned Ok having issued
\* no network operation.
C7_Witness ==
    \E t \in Tasks :
        /\ op[t] = "authorize_path" /\ result[t] = "Ok" /\ net[t] = {}
        /\ authorization_scopes[arg[t]] # 0

\* C8 as stated: duplicate authorization is not coalesced.  A call that began
\* while another was authorizing the same uncached path succeeds only by a
\* handshake of its own; it is never handed the other call's token.
C8_DuplicateNotCoalesced ==
    \A t \in Tasks :
        (op[t] = "authorize_path" /\ raced[t] /\ result[t] = "Ok")
        => "cbs_authorize" \in net[t]

\* C8 as amended: the token cache's lock, held from before the lookup until
\* authorize_path returns, serializes duplicate authorizations: at most one
\* handshake is in progress, its path has no entry, no call ever fails with
\* UnableToAddAuthenticationToken, and an inserted token is never replaced.
C8_DuplicateSerialized ==
    /\ [](/\ \A t \in Tasks : result[t] # "UnableToAddAuthenticationToken"
          /\ \A t \in Tasks :
                InHandshake(t) =>
                    /\ scopes_lock = t
                    /\ authorization_scopes[AuthPath(t)] = 0
          /\ \A t \in Tasks :
                (raced[t] /\ pc[t] = "ap_lock" /\ scopes_lock # NoTask) =>
                    ~ENABLED authorize_path(t))
    /\ [][\A p \in AllPaths :
             authorization_scopes[p] # 0 =>
                 authorization_scopes'[p] = authorization_scopes[p]]_vars

\* C8's case: a call that raced with another authorization of its path has
\* returned Ok with the other call's token, without a handshake of its own.
C8_Witness ==
    \E t \in Tasks :
        /\ op[t] = "authorize_path" /\ raced[t]
        /\ result[t] = "Ok" /\ net[t] = {}
        /\ authorization_scopes[arg[t]] # 0

\* C9 as stated: after open, close succeeds, and afterwards the connection is
\* absent, which is what fails every later operation.
C9_CloseSucceedsConnectionAbsent ==
    \A t \in Tasks :
        (op[t] = "close" /\ result[t] # "pending"
           /\ \E u \in Tasks : op[u] = "open" /\ result[u] = "Ok")
        => (result[t] = "Ok" /\ cell_empty)

\* C9 as amended: close on an opened client never fails with
\* MissingConnection; it issues one close on the stored connection and
\* returns its outcome, leaving the cell as it is.  close takes the client by
\* value: it is called at most once, no call is in progress when it is, and
\* once it is called no call begins and no other network operation is issued.
C9_CloseConsumesClient ==
    /\ [](/\ Cardinality({t \in Tasks : op[t] = "close"}) <= 1
          /\ \A t \in Tasks :
                (op[t] = "close" /\ ~cell_empty) =>
                    /\ result[t] \in {"pending", "Ok", "CloseFailed"}
                    /\ net[t] = {"close"}
                    /\ (result[t] = "Ok" <=> conns[connection] = "closed")
          /\ \A t \in Tasks : CloseCalled /\ op[t] # "close" => pc[t] = "idle")
    /\ [][CloseCalled =>
             /\ calls' = calls
             /\ connection' = connection
             /\ net' = net
             /\ op' = op]_vars

\* C9's case: close after a successful open has returned Ok and the stored
\* connection is closed.
C9_Witness ==
    \E t, u \in Tasks :
        /\ op[u] = "open" /\ result[u] = "Ok"
        /\ op[t] = "close" /\ result[t] = "Ok"
        /\ ~cell_empty /\ conns[connection] = "closed"

\* C10: close on a client whose connection cell is empty returns
\* MissingConnection and issues no close: no connection is closed.
C10_CloseWithoutConnection ==
    \A t \in Tasks :
        (op[t] = "close" /\ cell_empty) =>
            /\ result[t] = "MissingConnection"
            /\ pc[t] = "idle"
            /\ net[t] = {}
            /\ \A c \in DOMAIN conns : conns[c] # "closed"

\* C10's case: every open failed, and close has returned MissingConnection.
C10_Witness ==
    \E t, u \in Tasks :
        /\ op[u] = "open" /\ result[u] = "OpenFailed"
        /\ op[t] = "close" /\ result[t] = "MissingConnection"
        /\ cell_empty

\* A submit_batch call has its sender's handle: it waits to send, sends, or
\* has sent.
HasSender(t) == op[t] = "submit_batch" /\ handle[t] # 0

\* The operations of the CBS handshake.
HandshakeOps == {"session", "cbs_attach", "get_token", "cbs_authorize"}

\* C11 as stated: on an opened client, the submit_batch that attached the
\* link of its path and succeeded performed the CBS authorization of the path
\* itself; a call that found the link stored issues nothing but its send.
C11_FirstSubmitAuthorizes ==
    (\E u \in Tasks : op[u] = "open" /\ result[u] = "Ok") =>
        \A t \in Tasks :
            (HasSender(t) /\ result[t] = "Ok") =>
                IF "attach" \in net[t]
                THEN "cbs_authorize" \in net[t]
                ELSE net[t] = {"send"}

\* C11 as amended: once a path has its link stored, exactly one CBS
\* authorization of the path and exactly one attach of its link have
\* succeeded, over all calls so far; the call that attached the link either
\* went through the whole handshake or, the token being cached by an earlier
\* submit_batch that failed after authorizing, through none of it; a call
\* that found the link stored issues nothing but its send.
C11_OneAuthorizeOneAttach ==
    /\ \A p \in BatchPaths :
          sender_instances[p] # 0 =>
              succeeded[p].cbs_authorize = 1 /\ succeeded[p].attach = 1
    /\ \A t \in Tasks :
          HasSender(t) =>
              IF "attach" \in net[t]
              THEN /\ "session" \in net[t]
                   /\ net[t] \cap HandshakeOps \in {{"session"}, HandshakeOps}
              ELSE net[t] \subseteq {"send"}

\* C11's case: on an opened client a submit_batch has succeeded having issued
\* its send only, the link of its path stored by an earlier call.
C11_Witness ==
    \E t, u \in Tasks :
        /\ op[u] = "open" /\ result[u] = "Ok"
        /\ op[t] = "submit_batch" /\ result[t] = "Ok" /\ net[t] = {"send"}
        /\ succeeded[arg[t]].attach = 1

\* What a call returns when one of its own network operations failed.
NetworkFailures ==
    {"OpenFailed", "SessionFailed", "CbsAttachFailed", "GetTokenFailed",
     "CbsAuthorizeFailed", "AttachFailed", "SendFailed", "ManagementAttachFailed",
     "QueryFailed", "CloseFailed"}

\* C12: of two submit_batch calls to different paths, concurrent in whatever
\* interleaving, neither fails but by a network operation of its own (or by
\* the url not parsing); when both have succeeded, one link has been attached
\* for each path and the sender map holds the two, distinct.
C12_TwoPathsTwoLinks ==
    \A t, u \in Tasks :
        (op[t] = "submit_batch" /\ op[u] = "submit_batch" /\ arg[t] # arg[u]) =>
            /\ result[t] \in {"pending", "Ok", "UrlParseError"} \cup NetworkFailures
            /\ (result[t] = "Ok" /\ result[u] = "Ok") =>
                  /\ sender_instances[arg[t]] # 0
                  /\ sender_instances[arg[u]] # 0
                  /\ sender_instances[arg[t]] # sender_instances[arg[u]]
                  /\ succeeded[arg[t]].attach = 1
                  /\ succeeded[arg[u]].attach = 1
                  /\ Cardinality(DOMAIN senders) = 2

\* C12's case: two calls to different paths are in flight together, each
\* having attached the link of its path and now sending on it.
C12_Witness ==
    \E t, u \in Tasks :
        /\ op[t] = "submit_batch" /\ op[u] = "submit_batch" /\ arg[t] # arg[u]
        /\ pc[t] = "sb_send" /\ pc[u] = "sb_send"
        /\ "attach" \in net[t] /\ "attach" \in net[u]
        /\ sender_instances[arg[t]] # sender_instances[arg[u]]

\* C13: the link of a path is attached only after the path's CBS
\* authorization has succeeded, and a send is issued only on the attached,
\* stored link of its path, the path authorized: no session of a sender is
\* begun, no link attached and no send issued for a path without a token.
C13_AuthorizeAttachSend ==
    \A t \in Tasks :
        op[t] = "submit_batch" =>
            /\ (pc[t] \in {"es_session", "es_attach"} \/ "attach" \in net[t]) =>
                  /\ authorization_scopes[arg[t]] # 0
                  /\ succeeded[arg[t]].cbs_authorize >= 1
            /\ (pc[t] = "sb_send" \/ "send" \in net[t]) =>
                  /\ authorization_scopes[arg[t]] # 0
                  /\ succeeded[arg[t]].attach >= 1
                  /\ sender_instances[arg[t]] = handle[t]
                  /\ handle[t] \in DOMAIN senders
                  /\ senders[handle[t]].path = arg[t]

\* C13's case: one call has authorized its path, attached the link and is
\* sending on it.
C13_Witness ==
    \E t \in Tasks :
        /\ op[t] = "submit_batch" /\ pc[t] = "sb_send"
        /\ net[t] = HandshakeOps \cup {"open", "attach", "send"}

\* C14: a sender creation that fails, at whichever step, leaves the sender map
\* without an entry for its path and no sender attached for it; an
\* authorization that fails, at whichever step, leaves the token cache
\* without an entry for its path; an entry of the sender map is never but an
\* attached sender, an entry of the token cache never but a token the CBS
\* peer accepted.
C14_AllOrNothing ==
    /\ [](\A p \in BatchPaths : sender_instances[p] # 0 => succeeded[p].attach >= 1)
    /\ [](\A p \in AllPaths : authorization_scopes[p] # 0 => succeeded[p].cbs_authorize >= 1)
    /\ [][\A t \in Tasks :
            /\ (Creating(t) /\ pc'[t] = "idle") =>
                  /\ result'[t] \notin {"pending", "Ok"}
                  /\ sender_instances'[arg[t]] = 0
                  /\ \A s \in DOMAIN senders' : senders'[s].path # arg[t]
            /\ (InHandshake(t) /\ pc'[t] = "idle" /\ result'[t] # "Ok") =>
                  authorization_scopes'[AuthPath(t)] = 0]_vars

\* C14's case: one call has failed at its link attach and its path has no
\* entry in the sender map; another has failed at the CBS authorization and
\* its path has no entry in the token cache.
C14_Witness ==
    \E t, u \in Tasks :
        /\ op[t] = "submit_batch" /\ result[t] = "AttachFailed"
        /\ sender_instances[arg[t]] = 0
        /\ op[u] = "submit_batch" /\ result[u] = "CbsAuthorizeFailed"
        /\ authorization_scopes[arg[u]] = 0

\* The positions of a get_*_properties call holding the management cell's
\* lock: creating the link, or querying through it.
HoldsMgmt(t) ==
    /\ op[t] \in PropertyOps
    /\ pc[t] \in {"mc_session", "ap_lock", "ap_session", "ap_cbs_attach", "ap_get_token",
                  "ap_cbs_authorize", "mc_attach", "gp_query"}

\* C16: with calls abandoned at any await, every lock that is held is held by
\* a call still in flight at a position where it holds it; the sender map,
\* the token cache and the management cell hold nothing but attached senders
\* of their paths, tokens the CBS peer accepted and an attached link; a call
\* waiting for a lock while no other call is in flight can take it.
C16_AbandonKeepsCaches ==
    /\ scopes_lock # NoTask => InHandshake(scopes_lock)
    /\ senders_lock # NoTask => Creating(senders_lock)
    /\ mgmt_lock # NoTask => HoldsMgmt(mgmt_lock)
    /\ \A s \in DOMAIN senders :
          senders[s].lock # NoTask =>
              pc[senders[s].lock] = "sb_send" /\ handle[senders[s].lock] = s
    /\ \A p \in BatchPaths :
          sender_instances[p] # 0 =>
              /\ sender_instances[p] \in DOMAIN senders
              /\ senders[sender_instances[p]].path = p
              /\ succeeded[p].attach = 1
              /\ authorization_scopes[p] # 0
    /\ \A p \in AllPaths :
          authorization_scopes[p] # 0 => succeeded[p].cbs_authorize = 1
    /\ mgmt_client # 0 => succeeded[ManagementPath].attach = 1
    /\ \A u \in Tasks :
          (\A t \in Tasks \ {u} : pc[t] = "idle") =>
              /\ pc[u] = "es_lock" => ENABLED ensure_sender(u)
              /\ pc[u] = "ap_lock" => ENABLED authorize_path(u)
              /\ pc[u] = "sb_lock" => ENABLED submit_batch_lock(u)
              /\ pc[u] = "mc_lock" => ENABLED ensure_management_client(u)
              /\ pc[u] = "gp_lock" => ENABLED get_properties_lock(u)

\* C16's case: a submit_batch was abandoned while its link attach was in
\* flight, under the sender map's lock, and a call to the same path made
\* afterwards has attached the link and succeeded.
C16_Witness ==
    \E t, u \in Tasks :
        /\ op[t] = "submit_batch" /\ result[t] = "Abandoned" /\ "attach" \in net[t]
        /\ "send" \notin net[t]
        /\ op[u] = "submit_batch" /\ arg[u] = arg[t]
        /\ result[u] = "Ok" /\ "attach" \in net[u]

\* C17: a connection open that fails, by the transport or by the url not
\* parsing, puts nothing into the connection cell: the cell is set only by
\* an open that succeeded.  A call of ensure_connection that finds the cell
\* empty, whatever failed before, parses the url and issues an open of its
\* own, and when that open succeeds and the cell is still empty the new
\* connection is stored.
C17_FailedOpenLeavesCellEmpty ==
    /\ [](conns = <<>> => cell_empty)
    /\ [][\A t \in Tasks :
            /\ (pc[t] \in {"ec_check", "ec_open"}
                  /\ result'[t] \in {"OpenFailed", "UrlParseError"}) =>
                  connection' = connection /\ conns' = conns
            /\ (pc[t] = "ec_check" /\ cell_empty /\ pc'[t] # "ec_check") =>
                  IF url_parses
                  THEN pc'[t] = "ec_open" /\ "open" \in net'[t]
                  ELSE result'[t] = "UrlParseError"
            /\ (pc[t] = "ec_open" /\ cell_empty /\ pc'[t] # "ec_open"
                  /\ result'[t] # "OpenFailed") =>
                  /\ connection' # 0
                  /\ connection' \notin DOMAIN conns
                  /\ conns'[connection'] = "open"]_vars

\* C17's case: a submit_batch has returned the failure of its connection
\* open, and a later submit_batch, the cell still empty, has opened and
\* stored a connection and gone on to send.
C17_Witness ==
    \E t, u \in Tasks :
        /\ op[t] = "submit_batch" /\ result[t] = "OpenFailed"
        /\ op[u] = "submit_batch" /\ "open" \in net[u] /\ pc[u] = "sb_send"
        /\ ~cell_empty /\ conns[connection] = "open"
        /\ Cardinality(DOMAIN conns) = 1

C19_AuthorizeNeedsConnection ==
    /\ [](cell_empty => \A p \in AllPaths : authorization_scopes[p] = 0)
    /\ [](\A t \in Tasks :
            (op[t] = "authorize_path" /\ result[t] = "MissingConnection") => net[t] = {})
    /\ [][\A t \in Tasks :
            (pc[t] = "ap_lock" /\ cell_empty /\ pc'[t] # "ap_lock") =>
                /\ pc'[t] = "idle"
                /\ result'[t] = "MissingConnection"
                /\ net'[t] = net[t]
                /\ authorization_scopes' = authorization_scopes
                /\ tokens' = tokens
                /\ scopes_lock' = NoTask]_vars

\* C19's case: authorize_path called on a client without a connection has
\* returned MissingConnection.
C19_Witness ==
    \E t \in Tasks :
        /\ op[t] = "authorize_path" /\ result[t] = "MissingConnection"
        /\ cell_empty /\ net[t] = {} /\ tokens = 0

\* The positions of a get_*_properties call inside ensure_management_client's
\* creation of the management link.
CreatingMgmt(t) == HoldsMgmt(t) /\ pc[t] # "gp_query"

\* C20: at most one management link is ever attached; at most one call is
\* creating it, and none once it is stored; the stored link is never
\* replaced; ensure_management_client finding it stored goes on to the query
\* having issued nothing and changed nothing, so a call that did not attach
\* the link issues nothing but its query.
C20_OneManagementLink ==
    /\ [](succeeded[ManagementPath].attach <= 1)
    /\ [](\A t, u \in Tasks : (CreatingMgmt(t) /\ CreatingMgmt(u)) => t = u)
    /\ [](mgmt_client # 0 => \A t \in Tasks : ~CreatingMgmt(t))
    /\ [](\A t \in Tasks :
            (op[t] \in PropertyOps /\ "mgmt_attach" \notin net[t]
               /\ pc[t] \in {"gp_lock", "gp_query"}) => net[t] \subseteq {"query"})
    /\ [][mgmt_client # 0 => mgmt_client' = mgmt_client]_vars
    /\ [][\A t \in Tasks :
            (pc[t] = "mc_lock" /\ mgmt_client # 0 /\ pc'[t] # "mc_lock") =>
                /\ pc'[t] = "gp_lock"
                /\ result'[t] = "pending"
                /\ net'[t] = net[t]
                /\ UNCHANGED <<caches, locks, tokens, succeeded>>]_vars

\* C20's case: of two property queries in flight together one has attached
\* and stored the management link and is querying through it; the other has
\* found it stored and waits for it, nothing issued.
C20_Witness ==
    \E t, u \in Tasks :
        /\ op[t] = "get_eventhub_properties" /\ op[u] = "get_partition_properties"
        /\ pc[t] = "gp_query" /\ "mgmt_attach" \in net[t]
        /\ pc[u] = "gp_lock" /\ net[u] = {}
        /\ mgmt_client # 0

\* C21: a get_*_properties call that finds the connection cell empty returns
\* MissingConnection having issued no network operation: no open, no session,
\* no authorization, no query; the cell stays empty, the management cell is
\* empty, the token cache is as it was and no lock is left held.
C21_PropertiesNeedConnection ==
    /\ [](cell_empty => mgmt_client = 0)
    /\ [](\A t \in Tasks :
            (op[t] \in PropertyOps /\ result[t] = "MissingConnection") => net[t] = {})
    /\ [][\A t \in Tasks :
            (op[t] \in PropertyOps /\ pc[t] = "mc_lock" /\ cell_empty
               /\ pc'[t] # "mc_lock") =>
                /\ pc'[t] = "idle"
                /\ result'[t] = "MissingConnection"
                /\ net'[t] = {}
                /\ connection' = 0 /\ conns' = conns
                /\ mgmt_client' = 0
                /\ mgmt_lock' = NoTask
                /\ authorization_scopes' = authorization_scopes]_vars

\* C21's case: on a client without a connection each of the two property
\* queries has returned MissingConnection.
C21_Witness ==
    \E t, u \in Tasks :
        /\ op[t] = "get_eventhub_properties" /\ result[t] = "MissingConnection"
        /\ op[u] = "get_partition_properties" /\ result[u] = "MissingConnection"
        /\ cell_empty /\ conns = <<>> /\ mgmt_client = 0

\* A call has begun a session and is still in flight.
SessionBegun(t) == pc[t] # "idle" /\ "session" \in net[t]

\* C22: the connection cell, once set, is never emptied and never holds
\* another connection, whichever call runs and however an ensure_connection
\* fails; the stored connection is one whose open succeeded; a connection
\* that is not the stored one is gone as soon as it is opened; a call that
\* has begun a session has begun it with the cell set, on the stored
\* connection, which is open.
C22_OneConnectionForever ==
    /\ [](connection # 0 =>
            connection \in DOMAIN conns /\ conns[connection] \in {"open", "closed"})
    /\ [](\A c \in DOMAIN conns : c # connection => conns[c] = "dropped")
    /\ [](\A t \in Tasks : SessionBegun(t) => ~cell_empty /\ conns[connection] = "open")
    /\ [][connection # 0 => connection' = connection]_vars

\* C22's case: a second open succeeded beside the stored connection and its
\* call failed; the cell still holds the first connection, and a call has
\* begun a session on it.
C22_Witness ==
    \E t, u \in Tasks :
        /\ result[u] = "MissingConnection"
        /\ Cardinality(DOMAIN conns) = 2
        /\ connection = 1
        /\ SessionBegun(t)

\* The operations of the CBS handshake that put a token to the peer.
TokenOps == {"cbs_attach", "get_token", "cbs_authorize"}

\* C23: a token entry, once inserted, stays as it is: no step changes or
\* removes it, before or after its expiry; a call that began with its path's
\* cached token expired gets that token from authorize_path, attaching no CBS
\* link, asking for no token and putting none to the peer, and is not failed
\* for a duplicate entry.
C23_TokenNeverRefreshed ==
    /\ [](\A t \in Tasks :
            stale[t] =>
                /\ net[t] \cap TokenOps = {}
                /\ result[t] # "UnableToAddAuthenticationToken"
                /\ authorization_scopes[AuthPath(t)] # 0
                /\ authorization_scopes[AuthPath(t)] <= expired)
    /\ [][\A p \in AllPaths :
            authorization_scopes[p] # 0 =>
                authorization_scopes'[p] = authorization_scopes[p]]_vars

\* C23's case: a submit_batch that began after its path's token had expired,
\* the path without a link yet, has attached the link and sent with the token
\* as cached.
C23_Witness ==
    \E t \in Tasks :
        /\ stale[t] /\ op[t] = "submit_batch" /\ result[t] = "Ok"
        /\ {"session", "attach", "send"} \subseteq net[t]
        /\ net[t] \cap TokenOps = {}

\* How far into its call a position is: the steps of a call in their order
\* in the source.
Rank(where) ==
    CASE where \in {"es_lock", "mc_lock", "cl_close"} -> 1
      [] where \in {"ec_check", "mc_session"} -> 2
      [] where = "ec_open" -> 3
      [] where = "ap_lock" -> 4
      [] where = "ap_session" -> 5
      [] where = "ap_cbs_attach" -> 6
      [] where = "ap_get_token" -> 7
      [] where = "ap_cbs_authorize" -> 8
      [] where \in {"es_session", "mc_attach"} -> 9
      [] where \in {"es_attach", "gp_lock"} -> 10
      [] where \in {"sb_lock", "gp_query"} -> 11
      [] where = "sb_send" -> 12
      [] OTHER -> 13

\* The failure a call returns when the network operation awaited at a
\* position fails.
FailureAt(where) ==
    CASE where = "ec_open" -> "OpenFailed"
      [] where \in {"ap_session", "es_session", "mc_session"} -> "SessionFailed"
      [] where = "ap_cbs_attach" -> "CbsAttachFailed"
      [] where = "ap_get_token" -> "GetTokenFailed"
      [] where = "ap_cbs_authorize" -> "CbsAuthorizeFailed"
      [] where = "es_attach" -> "AttachFailed"
      [] where = "mc_attach" -> "ManagementAttachFailed"
      [] where = "sb_send" -> "SendFailed"
      [] where = "gp_query" -> "QueryFailed"
      [] where = "cl_close" -> "CloseFailed"
      [] OTHER -> "none"

\* C24: a call never goes back: each of its steps takes it further on or ends
\* it, so no step is repeated; a call that returns the failure of a network
\* operation returns the failure of the operation it was awaiting, in that
\* very step, and issues nothing more; what a call has issued it has issued.
C24_NoRetry ==
    /\ [](\A t \in Tasks : result[t] \in NetworkFailures => pc[t] = "idle")
    /\ [][\A t \in Tasks :
            pc[t] # "idle" =>
                /\ net[t] \subseteq net'[t]
                /\ (pc'[t] # pc[t]) => Rank(pc'[t]) > Rank(pc[t])
                /\ (result'[t] \in NetworkFailures) =>
                      /\ pc'[t] = "idle"
                      /\ result'[t] = FailureAt(pc[t])
                      /\ net'[t] = net[t]]_vars

\* C24's case: a submit_batch has returned the failure of its CBS attach,
\* having issued the open, the session begin and the CBS attach and nothing
\* after them.
C24_Witness ==
    \E t \in Tasks :
        /\ op[t] = "submit_batch" /\ pc[t] = "idle"
        /\ result[t] = "CbsAttachFailed"
        /\ net[t] = {"open", "session", "cbs_attach"}

\* C25: a sender's lock is held only by a call whose send on that sender is in
\* flight: not by a call looking up or creating a sender, nor by one waiting
\* for the sender; a call waiting for a sender's lock or sending holds none of
\* the client's other locks, the sender map's least of all; the sender's lock
\* is taken in the step that issues the send and dropped in the step in which
\* the send returns.
C25_SenderLockOnlyForSend ==
    /\ (\A s \in DOMAIN senders :
            senders[s].lock # NoTask =>
                /\ pc[senders[s].lock] = "sb_send"
                /\ handle[senders[s].lock] = s)
    /\ (\A t \in Tasks :
            pc[t] \in {"sb_lock", "sb_send"} =>
                senders_lock # t /\ scopes_lock # t /\ mgmt_lock # t)
    /\ (\A t \in Tasks :
            pc[t] = "sb_send" => senders[handle[t]].lock = t)
    /\ (\A t \in Tasks :
            (pc[t] \in {"es_lock", "sb_lock"} \/ Creating(t)) =>
                \A s \in DOMAIN senders : senders[s].lock # t)

\* C25's case: one call is sending on a path, holding that sender's lock,
\* while another holds the sender map's lock, creating the sender of another
\* path, and has its link attach in flight.
C25_Witness ==
    \E t, u \in Tasks :
        /\ pc[t] = "sb_send" /\ senders[handle[t]].lock = t
        /\ senders_lock = u /\ pc[u] = "es_attach"

\* C26: the management link is created in the order authorization, session
\* begin, attach: while a call has the management session's begin in flight,
\* or has begun it and goes on to authorize, the management path has its
\* token already.
C26_AuthorizeBeforeSession ==
    \A t \in Tasks :
        (op[t] \in PropertyOps /\ pc[t] \in {"mc_session", "ap_lock"}) =>
            authorization_scopes[ManagementPath] # 0

\* The sender locks a task holds.
SenderLocksOf(t) == {s \in DOMAIN senders : senders[s].lock = t}

\* C27: no task holds the sender map's lock and the management cell's lock
\* together; a task holding a sender's lock holds no other lock; a task takes
\* the sender map's lock, the management cell's lock or a sender's lock only
\* while it holds no lock at all, and the token cache's lock only while it
\* holds no sender's lock; and with every network operation returning, every
\* call returns.
C27_NoDeadlock ==
    /\ [](\A t \in Tasks :
            /\ ~(senders_lock = t /\ mgmt_lock = t)
            /\ SenderLocksOf(t) # {} =>
                  senders_lock # t /\ mgmt_lock # t /\ scopes_lock # t)
    /\ [][\A t \in Tasks :
            /\ ((senders_lock' = t /\ senders_lock # t)
                  \/ (mgmt_lock' = t /\ mgmt_lock # t)
                  \/ (SenderLocksOf(t)' # SenderLocksOf(t) /\ SenderLocksOf(t)' # {})) =>
                  /\ scopes_lock # t /\ senders_lock # t /\ mgmt_lock # t
                  /\ SenderLocksOf(t) = {}
            /\ (scopes_lock' = t /\ scopes_lock # t) => SenderLocksOf(t) = {}]_vars
    /\ \A t \in Tasks : (pc[t] # "idle") ~> (pc[t] = "idle")

\* C27's case: a submit_batch holding the sender map's lock and a
\* get_*_properties holding the management cell's lock both want the token
\* cache's lock: one has it, in the handshake, the other waits.
C27_Witness ==
    \E t, u \in Tasks :
        /\ senders_lock = t /\ scopes_lock = t /\ InHandshake(t)
        /\ mgmt_lock = u /\ pc[u] = "ap_lock"

\* C28: every path with an entry in the sender map has one in the token
\* cache; a stored management link has the management path's token beside
\* it; and where the token cache, the sender map or the management cell holds
\* anything, the connection cell holds a connection.
C28_CachesLayered ==
    /\ \A p \in BatchPaths : sender_instances[p] # 0 => authorization_scopes[p] # 0
    /\ mgmt_client # 0 => authorization_scopes[ManagementPath] # 0
    /\ ((\E p \in AllPaths : authorization_scopes[p] # 0)
          \/ (\E p \in BatchPaths : sender_instances[p] # 0)
          \/ mgmt_client # 0) => ~cell_empty

\* C28's case: a sender, the management link and their tokens are stored over
\* the connection, and a second path has its token but, its attach having
\* failed, no sender.
C28_Witness ==
    /\ ~cell_empty
    /\ mgmt_client # 0 /\ authorization_scopes[ManagementPath] # 0
    /\ \E p, q \in BatchPaths :
          /\ sender_instances[p] # 0 /\ authorization_scopes[p] # 0
          /\ sender_instances[q] = 0 /\ authorization_scopes[q] # 0

\* C29: a call creating a sender holds the sender map's lock at every step of
\* the creation, each network step included; meanwhile a submit_batch to
\* another path, though that path's link is stored, cannot look it up: it has
\* no handle, has sent nothing and is still pending, and any call that has a
\* handle and is waiting to send or sending is not such a waiting call.
C29_LookupWaitsForCreation ==
    /\ \A t \in Tasks : Creating(t) => senders_lock = t
    /\ \A t, u \in Tasks :
          (Creating(t) /\ op[u] = "submit_batch" /\ pc[u] = "es_lock"
             /\ arg[u] # arg[t] /\ sender_instances[arg[u]] # 0) =>
              /\ ~ENABLED ensure_sender(u)
              /\ handle[u] = 0
              /\ net[u] = {}
              /\ result[u] = "pending"

\* C29's case: a path's link is stored; a creation of another path's sender
\* has its link attach in flight, and a submit_batch to the first path waits
\* at the sender map's lock.
C29_Witness ==
    \E t, u \in Tasks :
        /\ Creating(t) /\ pc[t] = "es_attach"
        /\ op[u] = "submit_batch" /\ pc[u] = "es_lock"
        /\ arg[u] # arg[t] /\ sender_instances[arg[u]] # 0

\* C31: no call ever returns MissingMessageSender or MissingManagementClient:
\* ensure_sender's lookup after its insert finds the entry, the management
\* cell is empty whenever a call is about to set it, and it is set whenever a
\* property call looks it up after ensure_management_client returned Ok.
C31_InternalErrorsUnreachable ==
    /\ \A t \in Tasks :
          result[t] \notin {"MissingMessageSender", "MissingManagementClient"}
    /\ \A t \in Tasks : pc[t] = "mc_attach" => (mgmt_lock = t /\ mgmt_client = 0)
    /\ \A t \in Tasks : pc[t] \in {"gp_lock", "gp_query"} => mgmt_client # 0

\* C31's case: a submit_batch has got its handle from the lookup after the
\* insert, the management cell has been set, and a property call has found
\* the link there and has its query in flight.
C31_Witness ==
    /\ mgmt_client # 0
    /\ \E t, u \in Tasks :
          /\ op[t] = "submit_batch" /\ handle[t] # 0
          /\ handle[t] = sender_instances[arg[t]]
          /\ op[u] \in PropertyOps /\ pc[u] = "gp_query"

\* C32: a sender creation that fails at its session begin or at its link
\* attach leaves the token of its path in the cache, the same token, and the
\* sender map without an entry for the path; no call goes through any step
\* of the CBS handshake for a path whose token is cached; so a submit_batch
\* that has attached its link without authorizing, the token cached by an
\* earlier call, has issued a session begin and a link attach and, besides
\* its send, nothing else.
C32_TokenOutlivesFailedCreation ==
    /\ [][\A t \in Tasks :
            (/\ op[t] = "submit_batch" /\ pc[t] \in {"es_session", "es_attach"}
             /\ pc'[t] = "idle" /\ result'[t] \in {"SessionFailed", "AttachFailed"}) =>
                /\ authorization_scopes[arg[t]] # 0
                /\ authorization_scopes' = authorization_scopes
                /\ sender_instances'[arg[t]] = 0]_vars
    /\ [](\A t \in Tasks : InHandshake(t) => authorization_scopes[AuthPath(t)] = 0)
    /\ [](\A t \in Tasks :
            (op[t] = "submit_batch" /\ "attach" \in net[t] /\ "cbs_authorize" \notin net[t]) =>
                /\ authorization_scopes[arg[t]] # 0
                /\ net[t] \ {"send"} = {"session", "attach"})

\* C32's case: a submit_batch to a path has failed at its link attach, having
\* authorized the path; a later submit_batch to the same path has succeeded
\* having issued a session begin, a link attach and its send only.
C32_Witness ==
    \E t, u \in Tasks :
        /\ op[u] = "submit_batch" /\ result[u] = "AttachFailed"
        /\ "cbs_authorize" \in net[u]
        /\ op[t] = "submit_batch" /\ arg[t] = arg[u] /\ result[t] = "Ok"
        /\ net[t] = {"session", "attach", "send"}
        /\ succeeded[arg[t]].cbs_authorize = 1

\* A property call has its query in flight.
Querying(t) == op[t] \in PropertyOps /\ pc[t] = "gp_query"

\* C33 as stated: the call whose query is in flight holds the management
\* cell's lock, so no two queries are in flight at once, and every other
\* property call in flight waits in ensure_management_client, at its lock,
\* and cannot take it.
C33_QueriesSerialize ==
    \A t \in Tasks :
        Querying(t) =>
            /\ mgmt_lock = t
            /\ \A u \in Tasks \ {t} :
                  (op[u] \in PropertyOps /\ pc[u] # "idle") =>
                      /\ pc[u] = "mc_lock"
                      /\ ~ENABLED ensure_management_client(u)

\* C33 as amended: the call whose query is in flight holds the management
\* cell's lock, so no two queries are in flight at once, and every other
\* property call in flight waits at that lock and cannot take it: in
\* ensure_management_client, or, when it had returned from
\* ensure_management_client before the query began, in get_*_properties
\* itself, where the lock is taken a second time.
C33_QueriesSerializeAtLock ==
    \A t \in Tasks :
        Querying(t) =>
            /\ mgmt_lock = t
            /\ \A u \in Tasks \ {t} :
                  (op[u] \in PropertyOps /\ pc[u] # "idle") =>
                      /\ pc[u] \in {"mc_lock", "gp_lock"}
                      /\ ~ENABLED ensure_management_client(u)
                      /\ ~ENABLED get_properties_lock(u)
                      /\ "query" \notin net[u]

\* C33's case: a query is in flight and another property call, back from
\* ensure_management_client, waits for the cell's lock in get_*_properties.
C33_Witness ==
    \E t, u \in Tasks :
        /\ Querying(t)
        /\ op[u] \in PropertyOps /\ pc[u] = "gp_lock"

\* What a submit_batch returns when a step of its sender's creation failed.
CreationFailures ==
    {"UrlParseError", "OpenFailed", "MissingConnection", "SessionFailed",
     "CbsAttachFailed", "GetTokenFailed", "CbsAuthorizeFailed",
     "UnableToAddAuthenticationToken", "AttachFailed"}

\* C34: the step in which a sender creation fails gives the error to the call
\* that ran the creation and changes no other call's position or result; it
\* leaves the path without an entry and the sender map's lock free, so a
\* call waiting at the lock can take it; a call that leaves the lock finding
\* no entry for its path runs the creation itself, still pending: no call
\* comes away from the lock with an error.
C34_FailureNotShared ==
    /\ [][\A t \in Tasks :
            (Creating(t) /\ pc'[t] = "idle") =>
                /\ result'[t] \in CreationFailures
                /\ sender_instances'[arg[t]] = 0
                /\ senders_lock' = NoTask
                /\ \A u \in Tasks \ {t} : pc'[u] = pc[u] /\ result'[u] = result[u]]_vars
    /\ [](\A u \in Tasks :
            (pc[u] = "es_lock" /\ senders_lock = NoTask) =>
                (result[u] = "pending" /\ ENABLED ensure_sender(u)))
    /\ [][\A u \in Tasks :
            (pc[u] = "es_lock" /\ pc'[u] # "es_lock") =>
                /\ result'[u] = "pending"
                /\ IF sender_instances[arg[u]] = 0
                   THEN pc'[u] = "ec_check" /\ senders_lock' = u
                   ELSE pc'[u] = "sb_lock"]_vars

\* C34's case: a submit_batch has been waiting at the sender map's lock
\* while another call was creating the sender of the same path; that
\* creation has failed, and the call that waited has attached the link
\* itself, has the sender's handle and is sending on it.
C34_Witness ==
    \E t, u \in Tasks :
        /\ op[t] = "submit_batch" /\ result[t] \in CreationFailures
        /\ op[u] = "submit_batch" /\ arg[u] = arg[t] /\ waited[u]
        /\ "attach" \in net[u] /\ pc[u] = "sb_send"
        /\ handle[u] # 0 /\ handle[u] = sender_instances[arg[u]]

====
